---------------------------- MODULE Spec2Model ----------------------------
(***************************************************************************)
(* A model of the language-client lifecycle manager of vscode-lean4:       *)
(* LeanClientProvider (the registry of one LeanClient per project root)    *)
(* and InfoProvider (the infoview bridge: notification subscriptions and   *)
(* RPC sessions).  Both classes run on one cooperative thread; every       *)
(* action below is the code that runs between two suspension points.       *)
(***************************************************************************)
EXTENDS Integers, Sequences, FiniteSets, TLC

(***************************************************************************)
(* Bounds of the model.                                                    *)
(***************************************************************************)
MaxClients == 2     \* LeanClient objects allocated in one behaviour
MaxTasks == 2       \* asynchronous calls in flight at the same time
MaxSignals == 1     \* toolchain-change signals accepted in one behaviour
MaxFailures == 1    \* fatal failures reported in one behaviour
MaxEntries == 1     \* methods the infoview is subscribed to at the same time
MaxRefs == 2        \* references the infoview holds to one notification method
MaxSessions == 2    \* RPC sessions the infoview asks for in one behaviour
MaxRestarts == 1    \* restarts of one client asked for by command
MaxChanges == 2     \* toolchain-change signals accepted where they may overlap

(***************************************************************************)
(* Locations are strings, modelled as sequences of characters so that      *)
(* startsWith is the textual prefix test of the code.                      *)
(***************************************************************************)
RootA == <<"a">>
RootAB == <<"a", "/", "b">>
UntitledRoot == <<"u", ":">>
NoFolder == <<>>
ProjectRoots == {RootA, RootAB}
DocA == <<"a", "/", "x">>
DocAB == <<"a", "/", "b", "/", "y">>
Docs == {DocA, DocAB}
\* The locations a toolchain-change signal of project a carries: a document
\* uri, or the uri of the package's toolchain file.
ToolchainA == <<"a", "/", "t">>
Triggers == {DocA, ToolchainA}
LanguageIds == {"lean", "lean4", "markdown"}

StartsWith(s, p) == Len(p) <= Len(s) /\ SubSeq(s, 1, Len(p)) = p

\* The nearest ancestor directory of uri that holds a project descriptor.
FindLeanPackageRoot(uri) ==
    LET above == {r \in ProjectRoots : uri = r \/ StartsWith(uri, r \o <<"/">>)}
    IN IF above = {} THEN NoFolder
       ELSE CHOOSE r \in above : \A q \in above : Len(q) <= Len(r)

\* folder ? folder : Uri.from({scheme: 'untitled'}), then toString()
FolderPath(uri) ==
    IF FindLeanPackageRoot(uri) = NoFolder THEN UntitledRoot
    ELSE FindLeanPackageRoot(uri)

IsUntitled(uri) == StartsWith(uri, UntitledRoot)

AllPaths == ProjectRoots \cup {UntitledRoot}

(***************************************************************************)
(* LeanVersion values the installer's probe returns.                      *)
(***************************************************************************)
V4 == [version |-> "4", error |-> FALSE]
V4Err == [version |-> "4", error |-> TRUE]
V3 == [version |-> "3", error |-> FALSE]
VErr == [version |-> "", error |-> TRUE]
NoVersion == [version |-> "undefined", error |-> FALSE]
VersionInfos == {V4, V4Err, V3, VErr}

VARIABLES
    clients,        \* Map<string, LeanClient>, in insertion order
    versions,       \* Map<string, LeanVersion>
    pending,        \* Map<string, boolean>: its key set
    testing,        \* Map<string, boolean>: its key set
    activeClient,   \* LeanClient | undefined (0)
    leanClients,    \* every LeanClient object allocated so far
    tasks,          \* the asynchronous calls suspended at an await
    misses,         \* history: the roots for which a call of ensureClient
                    \* returned no client because the pending guard was held
    lost,           \* history: per root, whether its registered client failed
                    \* fatally ("lost") and only a toolchain-change signal
                    \* ("signalled") or nothing has called ensureClient since
    touched,        \* history: the root of the call of ensureClient issued
                    \* last, NoFolder before the first call
    told,           \* history, kept where the restarted handler is examined:
                    \* the client whose handler completed last, what that
                    \* handler did in the order it did it, the clients whose
                    \* suspended handler has told a panel of the restart, and
                    \* those whose suspended handler began with a panel live
    signals,        \* history: toolchain-change signals accepted
    failures,       \* history: fatal failures reported
    webviewPanel,   \* whether the infoview panel is live
    autoOpened,     \* InfoProvider.autoOpened
    activeEditor,   \* the language id of window.activeTextEditor's document,
                    \* "none" without an active editor
    panels,         \* the WebviewPanel objects created and not yet disposed
    autoOpens,      \* history: the calls of autoOpen that opened the preview
    serverNotifSubscriptions,   \* Map<string, [number, Disposable[]]>
    clientNotifSubscriptions,   \* Map<string, [number, Disposable[]]>
    refs,           \* history: per table and method, the subscribe calls that
                    \* returned minus the unsubscribe calls that returned,
                    \* since the panel was created
    rpcSessions,    \* Map<string, RpcSession>
    keepAlive,      \* the sessions whose keepAliveInterval is running
    nextSession,    \* session ids handed out by the server so far
    last            \* history: the last call of the editor API that changed or
                    \* threw, and whether it threw

provVars == <<clients, versions, pending, testing, activeClient>>
subVars == <<serverNotifSubscriptions, clientNotifSubscriptions>>
rpcVars == <<rpcSessions, keepAlive, nextSession>>
viewVars == <<activeEditor, panels, autoOpens>>
infoVars == <<webviewPanel, autoOpened, viewVars, subVars, rpcVars, last>>
vars == <<provVars, leanClients, tasks, misses, lost, touched, told, signals, failures, refs,
          infoVars>>

(***************************************************************************)
(* Notification methods.  A method name is a pair <<first character,       *)
(* rest>>, so that method.startsWith('$') is a test on the name itself.    *)
(***************************************************************************)
PublishDiagnostics == <<"t", "extDocument/publishDiagnostics">>
FileProgress == <<"$", "/lean/fileProgress">>
DidChange == <<"t", "extDocument/didChange">>
DidClose == <<"t", "extDocument/didClose">>
Hover == <<"t", "extDocument/hover">>
ServerMethods == {PublishDiagnostics, FileProgress, Hover}
ClientMethods == {DidChange, DidClose, Hover}
HandlerKeys == ({"server"} \X ServerMethods) \cup ({"client"} \X ClientMethods)

(***************************************************************************)
(* A LeanClient object.  handlers counts, per table and method, the        *)
(* handlers subscribed on this client's emitters and not yet disposed.     *)
(* The history fields: settled is the version its creation went on with   *)
(* at line 231, outcome what the creating call returned ("none" while it   *)
(* has not returned), hit whether another call found the client registered *)
(* and returned it, early whether such a call found the pending guard held.*)
(***************************************************************************)
NewLeanClient(path) ==
    [folder |-> path, disposed |-> FALSE, wired |-> FALSE,
     added |-> 0, removed |-> 0, dropped |-> FALSE, started |-> 0,
     restarts |-> 0, due |-> 0, failed |-> FALSE, handled |-> 0,
     handlers |-> [k \in HandlerKeys |-> 0],
     settled |-> NoVersion, outcome |-> "none", hit |-> FALSE,
     early |-> FALSE]

ClientIds == 1..Len(leanClients)

(***************************************************************************)
(* The clients map: a JavaScript Map iterates in insertion order.          *)
(***************************************************************************)
MapHas(m, key) == \E i \in 1..Len(m) : m[i].key = key
MapGet(m, key) ==
    IF MapHas(m, key)
    THEN m[CHOOSE i \in 1..Len(m) : m[i].key = key].value
    ELSE 0
MapDelete(m, key) == SelectSeq(m, LAMBDA e : e.key # key)
MapSet(m, key, value) ==
    IF MapHas(m, key)
    THEN [i \in 1..Len(m) |->
            IF m[i].key = key THEN [key |-> key, value |-> value] ELSE m[i]]
    ELSE Append(m, [key |-> key, value |-> value])

\* getClients(): Array.from(this.clients.values())
GetClients == [i \in 1..Len(clients) |-> clients[i].value]

\* LeanClient.getWorkspaceFolder(): the folder uri as a string
GetWorkspaceFolder(c) == leanClients[c].folder

FirstMatch(path, i) ==
    path # <<>> /\ i \in 1..Len(clients)
    /\ StartsWith(path, GetWorkspaceFolder(clients[i].value))
    /\ \A j \in 1..(i - 1) :
          ~StartsWith(path, GetWorkspaceFolder(clients[j].value))

\* findClient(path): the first client, in iteration order, whose folder is a
\* prefix of path; 0 stands for null.
FindClient(path) ==
    IF \E i \in 1..Len(clients) : FirstMatch(path, i)
    THEN clients[CHOOSE i \in 1..Len(clients) : FirstMatch(path, i)].value
    ELSE 0

(***************************************************************************)
(* Records.                                                                *)
(***************************************************************************)
Task(kind, pc, uri, path, client, version) ==
    [kind |-> kind, pc |-> pc, uri |-> uri, path |-> path,
     client |-> client, version |-> version]

IsForeign(vi) == vi.version # "" /\ vi.version # "undefined" /\ vi.version # "4"

(***************************************************************************)
(* ensureClient (lines 204-267).  The code between two awaits is one step. *)
(*   Settle: lines 231-266, once versionInfo is known for the client c     *)
(*   that this call allocated.  old is the suspended task that resumes     *)
(*   (empty when the call has not suspended yet); lc0, cl0 and pd0 are     *)
(*   leanClients, clients and pending as the earlier lines of the same     *)
(*   step left them.                                                       *)
(***************************************************************************)
\* The history of lost roots, at a call of ensureClient for path.
Touched(l, kind, path) ==
    [l EXCEPT ![path] = IF kind = "open" THEN "no"
                        ELSE IF @ = "lost" THEN "signalled" ELSE @]

\* A guard that looks at the pending map alone.
MustCreateUnlessPending(client, path) == path \notin pending

\* A guard that one pending creation holds for every root.
MustCreateNonePending(client, path) == client = 0 /\ pending = {}

\* Line 214: create only when no client is registered and none is pending.
MustCreate(client, path) == client = 0 /\ path \notin pending

\* A start that does not look at the probe's error.
ReadyWhenProbed(vi) == vi # NoVersion

\* Line 256: start only when the probe reported no error.
ReadyToStart(vi) == vi # NoVersion /\ ~vi.error

\* Lines 82-85 and 92 of the installChanged handler, and the end of
\* didOpenEditor: what the caller does with [cached, client].
AfterEnsure(old, kind, uri, path, cached, client, lc0) ==
    IF kind = "install" /\ cached /\ client # 0
    THEN /\ leanClients' = [lc0 EXCEPT ![client].restarts = @ + 1,
                                       ![client].due = @ + 1]
         /\ tasks' = (tasks \ old)
                \cup {Task("install", "restart", uri, path, client, NoVersion)}
         /\ UNCHANGED testing
    ELSE /\ leanClients' = lc0
         /\ tasks' = tasks \ old
         /\ testing' = IF kind = "install" THEN testing \ {uri} ELSE testing

\* A foreign branch that leaves the registry alone.
IgnoredButKept(m, path) == m

\* Line 235: this.clients.delete(path)
Ignored(m, path) == MapDelete(m, path)

\* A creation that wires its client without announcing it.
WiredUnannounced(rec) == [rec EXCEPT !.wired = TRUE]

\* Lines 240-254: the handlers are wired, then clientAdded fires.
Wired(rec) == [rec EXCEPT !.wired = TRUE, !.added = @ + 1]

Settle(old, kind, uri, path, c, vi, lc0, cl0, pd0) ==
    IF IsForeign(vi)
    THEN \* lines 231-238: a workspace of another version of Lean
         /\ pending' = pd0 \ {path}
         /\ clients' = Ignored(cl0, path)
         /\ AfterEnsure(old, kind, uri, path, FALSE, 0,
                [lc0 EXCEPT ![c].disposed = TRUE, ![c].settled = vi,
                            ![c].outcome = "undefined"])
         /\ UNCHANGED <<activeClient, misses>>
    ELSE \* lines 240-254: wire the handlers, clear the guard, fire clientAdded
         /\ pending' = pd0 \ {path}
         /\ clients' = cl0
         /\ IF ReadyToStart(vi)
            THEN \* line 259: await client.start()
                 /\ leanClients' = [lc0 EXCEPT ![c] =
                        [Wired(@) EXCEPT !.started = @ + 1, !.due = @ + 1,
                                         !.settled = vi]]
                 /\ tasks' = (tasks \ old)
                        \cup {Task(kind, "start", uri, path, c, vi)}
                 /\ UNCHANGED <<activeClient, misses, testing>>
            ELSE \* lines 264-266
                 /\ activeClient' = c
                 /\ AfterEnsure(old, kind, uri, path, FALSE, c,
                        [lc0 EXCEPT ![c] = [Wired(@) EXCEPT !.settled = vi,
                                                            !.outcome = "client"]])
                 /\ UNCHANGED misses

\* Lines 205-230: from the call to its first await, or to its return.
EnsureClient(old, kind, uri, vi) ==
    LET path == FolderPath(uri)
        cachedClient == MapHas(clients, path)
        client == MapGet(clients, path)
        c == Len(leanClients) + 1
        lc0 == Append(leanClients, NewLeanClient(path))
        cl0 == MapSet(clients, path, c)
        pd0 == pending \cup {path}
    IN /\ lost' = Touched(lost, kind, path)
       /\ touched' = path
       /\ UNCHANGED told
       /\ IF ~MustCreate(client, path)
          THEN \* lines 263-266
               /\ activeClient' = client
               /\ misses' = IF client = 0 THEN misses \cup {path} ELSE misses
               /\ AfterEnsure(old, kind, uri, path, cachedClient, client,
                     IF client = 0 THEN leanClients
                     ELSE [leanClients EXCEPT
                               ![client].hit = TRUE,
                               ![client].early = @ \/ path \in pending])
               /\ UNCHANGED <<clients, versions, pending>>
          ELSE IF vi # NoVersion
          THEN \* a version was supplied: no probe, no await before line 231
               /\ Settle(old, kind, uri, path, c, vi, lc0, cl0, pd0)
               /\ UNCHANGED versions
          ELSE \* line 229: await this.getLeanVersion(folderUri), lines 184-199
               /\ pending' = pd0
               /\ clients' = cl0
               /\ leanClients' = lc0
               /\ IF path \in DOMAIN versions
                  THEN /\ tasks' = (tasks \ old)
                           \cup {Task(kind, "version", uri, path, c, versions[path])}
                       /\ UNCHANGED versions
                  ELSE IF IsUntitled(path)
                  THEN /\ versions' = [p \in DOMAIN versions \cup {path} |->
                                          IF p = path THEN V4 ELSE versions[p]]
                       /\ tasks' = (tasks \ old)
                           \cup {Task(kind, "version", uri, path, c, V4)}
                  ELSE /\ tasks' = (tasks \ old)
                           \cup {Task(kind, "probe", uri, path, c, NoVersion)}
                       /\ UNCHANGED versions
               /\ UNCHANGED <<activeClient, misses, testing>>

(***************************************************************************)
(* didOpenEditor (lines 117-156), for a document with the given language   *)
(* id that a visible editor shows or not.                                  *)
(***************************************************************************)
\* Lines 121-131: not a Lean file, or a document no visible editor shows.
Bails(languageId, visible) ==
    languageId \notin {"lean", "lean4"} \/ ~visible

\* A handler that leaves the legacy language id alone.
RewritesNever(languageId) == FALSE

\* Line 136: the document has the language id of Lean 3.
Rewrites(languageId) == languageId = "lean"

DidOpenEditor(doc, languageId, visible) ==
    /\ UNCHANGED <<signals, failures, refs, infoVars>>
    /\ IF Bails(languageId, visible)
       THEN UNCHANGED <<provVars, leanClients, tasks, misses, lost, touched, told>>
       ELSE IF Rewrites(languageId)
       THEN \* line 139: await languages.setTextDocumentLanguage(document,
            \* 'lean4'); the event it triggers is another call of the handler
            /\ tasks' = tasks \cup
                  {Task("open", "language", doc, FolderPath(doc), 0, NoVersion)}
            /\ UNCHANGED <<provVars, leanClients, misses, lost, touched, told>>
       ELSE \* lines 148-155
            EnsureClient({}, "open", doc, NoVersion)

\* setTextDocumentLanguage resolves or rejects: the handler returns at line
\* 145 without a call of ensureClient, or rejects.
LanguageSet(t) ==
    /\ t \in tasks /\ t.pc = "language"
    /\ tasks' = tasks \ {t}
    /\ UNCHANGED <<provVars, leanClients, misses, lost, touched, told, signals,
                   failures, refs, infoVars>>

\* installer.testLeanVersion resolves inside getLeanVersion: lines 197-198,
\* then ensureClient resumes at line 231.
ProbeReturn(t, vi) ==
    /\ t \in tasks /\ t.pc = "probe"
    /\ versions' = [p \in DOMAIN versions \cup {t.path} |->
                       IF p = t.path THEN vi ELSE versions[p]]
    /\ Settle({t}, t.kind, t.uri, t.path, t.client, vi,
              leanClients, clients, pending)
    /\ UNCHANGED <<lost, touched, told, signals, failures, refs, infoVars>>

\* getLeanVersion had the version cached (line 189): ensureClient resumes.
VersionReturn(t) ==
    /\ t \in tasks /\ t.pc = "version"
    /\ Settle({t}, t.kind, t.uri, t.path, t.client, t.version,
              leanClients, clients, pending)
    /\ UNCHANGED <<versions, lost, touched, told, signals, failures, refs, infoVars>>

\* installer.testLeanVersion throws: getLeanVersion and ensureClient reject,
\* and didOpenEditor logs the exception (lines 153-155).
ProbeThrow(t) ==
    /\ t \in tasks /\ t.pc = "probe"
    /\ tasks' = tasks \ {t}
    /\ UNCHANGED <<provVars, leanClients, misses, lost, touched, told, signals, failures, refs, infoVars>>

\* client.start() resolves (line 259): lines 264-266, then the caller.
StartReturn(t) ==
    /\ t \in tasks /\ t.pc = "start"
    /\ activeClient' = t.client
    /\ AfterEnsure({t}, t.kind, t.uri, t.path, FALSE, t.client,
                   [leanClients EXCEPT ![t.client].outcome = "client"])
    /\ UNCHANGED <<clients, versions, pending, misses, lost, touched, told, signals, failures, refs,
                   infoVars>>

\* client.start() rejects (line 259): ensureClient rejects before line 264;
\* didOpenEditor logs the exception (lines 153-155), the installChanged
\* handler logs it and releases its guard (lines 89-92).
StartThrow(t) ==
    /\ t \in tasks /\ t.pc = "start"
    /\ tasks' = tasks \ {t}
    /\ testing' = IF t.kind = "install" THEN testing \ {t.uri} ELSE testing
    /\ UNCHANGED <<clients, versions, pending, activeClient, leanClients,
                   misses, lost, touched, told, signals, failures, refs, infoVars>>

(***************************************************************************)
(* The serverFailed handler wired at lines 240-246 for the client c.       *)
(***************************************************************************)
\* A failure handler that leaves the registry alone.
ForgottenButKept(m, path) == m

\* Line 243: this.clients.delete(path)
Forgotten(m, path) == MapDelete(m, path)

ServerFailed(c) ==
    /\ c \in ClientIds
    /\ leanClients[c].wired
    /\ leanClients[c].started + leanClients[c].restarts > 0
    /\ ~leanClients[c].failed
    /\ LET path == leanClients[c].folder
           cached == MapGet(clients, path)
       IN /\ clients' = Forgotten(clients, path)
          /\ lost' = IF cached = c THEN [lost EXCEPT ![path] = "lost"] ELSE lost
          /\ leanClients' = [i \in ClientIds |->
                [leanClients[i] EXCEPT
                    !.failed = IF i = c THEN TRUE ELSE @,
                    !.disposed = IF i = cached THEN TRUE ELSE @,
                    !.dropped = IF i = cached THEN TRUE ELSE @]]
    /\ failures' = failures + 1
    /\ UNCHANGED <<versions, pending, testing, activeClient, tasks, misses,
                   touched, told, signals, refs, infoVars>>

(***************************************************************************)
(* workspace.onDidChangeWorkspaceFolders, one removed folder (lines 51-62).*)
(***************************************************************************)
RemoveFolder(path) ==
    LET client == MapGet(clients, path)
    IN /\ IF client # 0
          THEN /\ clients' = MapDelete(clients, path)
               /\ versions' = [p \in DOMAIN versions \ {path} |-> versions[p]]
               /\ leanClients' = [leanClients EXCEPT ![client].disposed = TRUE,
                                                     ![client].removed = @ + 1]
          ELSE UNCHANGED <<clients, versions, leanClients>>
       /\ UNCHANGED <<pending, testing, activeClient, tasks, misses, lost, touched, told, signals,
                      failures, refs, infoVars>>

(***************************************************************************)
(* installer.installChanged handler (lines 64-93).                         *)
(***************************************************************************)
\* A handler without the re-entrancy test.
NeverBlocked(m, uri) == FALSE

\* Line 70: this.testing.has(path), path being the signal's uri as a string
Blocked(m, uri) == uri \in m

InstallChanged(uri) ==
    /\ IF Blocked(testing, uri)
       THEN \* lines 70-73: blocking re-entrancy
            UNCHANGED <<testing, tasks, signals>>
       ELSE \* lines 75-80: await installer.testLeanVersion(packageUri)
            /\ testing' = testing \cup {uri}
            /\ tasks' = tasks \cup
                  {Task("install", "test", uri, FolderPath(uri), 0, NoVersion)}
            /\ signals' = signals + 1
    /\ UNCHANGED <<clients, versions, pending, activeClient, leanClients,
                   misses, lost, touched, told, failures, refs, infoVars>>

\* testLeanVersion resolves: lines 81-92.
TestReturn(t, vi) ==
    /\ t \in tasks /\ t.pc = "test"
    /\ IF vi.version = "4"
       THEN EnsureClient({t}, "install", t.uri, vi)
       ELSE /\ testing' = testing \ {t.uri}
            /\ tasks' = tasks \ {t}
            /\ UNCHANGED <<clients, versions, pending, activeClient,
                           leanClients, misses, lost, touched, told>>
    /\ UNCHANGED <<signals, failures, refs, infoVars>>

\* testLeanVersion rejects (line 80): the catch of line 89, then line 92.
TestThrow(t) ==
    /\ t \in tasks /\ t.pc = "test"
    /\ testing' = testing \ {t.uri}
    /\ tasks' = tasks \ {t}
    /\ UNCHANGED <<clients, versions, pending, activeClient, leanClients,
                   misses, lost, touched, told, signals, failures, refs, infoVars>>

\* client.restart() resolves or rejects (line 84), then line 92.
RestartReturn(t) ==
    /\ t \in tasks /\ t.pc = "restart"
    /\ testing' = testing \ {t.uri}
    /\ tasks' = tasks \ {t}
    /\ UNCHANGED <<clients, versions, pending, activeClient, leanClients,
                   misses, lost, touched, told, signals, failures, refs, infoVars>>

(***************************************************************************)
(* InfoProvider: the notification subscription tables (lines 332-333).     *)
(* An entry is [count, subscriptions]; a subscription is the Disposable of *)
(* a handler, represented by the client it was subscribed on.              *)
(***************************************************************************)
Table(name) ==
    IF name = "server" THEN serverNotifSubscriptions ELSE clientNotifSubscriptions

\* A subscribe without the final else: every method gets an entry.
SupportedAny(name, method) == TRUE

\* Lines 391, 397 and 429, 435: the methods a table can subscribe to.
Supported(name, method) ==
    IF name = "server"
    THEN method = PublishDiagnostics \/ method[1] = "$"
    ELSE method = DidChange \/ method = DidClose

Occurrences(subs, c) == Cardinality({i \in 1..Len(subs) : subs[i] = c})

\* h.dispose() for every h of subscriptions (lines 412-414, 451-453, 636-640)
DisposeAll(lc, name, method, subs) ==
    [c \in 1..Len(lc) |->
        [lc[c] EXCEPT !.handlers[<<name, method>>] = @ - Occurrences(subs, c)]]

\* one new handler on every client of list (lines 393-395, 399-401, 431-439)
SubscribeAll(lc, name, method, list) ==
    [c \in 1..Len(lc) |->
        [lc[c] EXCEPT !.handlers[<<name, method>>] = @ + Occurrences(list, c)]]

MapPut(tbl, method, entry) ==
    [m \in DOMAIN tbl \cup {method} |-> IF m = method THEN entry ELSE tbl[m]]
MapRemove(tbl, method) == [m \in DOMAIN tbl \ {method} |-> tbl[m]]
EmptyMap == [m \in {} |-> 0]

Last(op, threw) == [op |-> op, threw |-> threw]

\* An unsubscribe that keeps the entry of the last reference.
UnsubscribedButKept(tbl, method) ==
    MapPut(tbl, method, [tbl[method] EXCEPT !.count = @ - 1])

\* Lines 409-418 and 448-457: the table after an unsubscribe of an entry.
Unsubscribed(tbl, method) ==
    IF tbl[method].count = 1
    THEN MapRemove(tbl, method)
    ELSE MapPut(tbl, method, [tbl[method] EXCEPT !.count = @ - 1])

\* Lines 410-415: the handlers an unsubscribe disposes.
UnsubscribeDisposes(tbl, method) ==
    IF tbl[method].count = 1 THEN tbl[method].subs ELSE <<>>

\* Lines 381-386 and 422-427: one more reference to an existing entry.
Resubscribed(tbl, method) ==
    MapPut(tbl, method, [tbl[method] EXCEPT !.count = @ + 1])

\* subscribeServerNotifications / subscribeClientNotifications
\* (lines 380-406, 421-444); tbl is the table named name.
Subscribe(name, tbl, method) ==
    /\ webviewPanel
    /\ IF method \in DOMAIN tbl
       THEN /\ tbl' = Resubscribed(tbl, method)
            /\ refs' = [refs EXCEPT ![<<name, method>>] = @ + 1]
            /\ last' = Last("subscribe", FALSE)
            /\ UNCHANGED leanClients
       ELSE IF Supported(name, method)
       THEN /\ tbl' = MapPut(tbl, method, [count |-> 1, subs |-> GetClients])
            /\ refs' = [refs EXCEPT ![<<name, method>>] = @ + 1]
            /\ leanClients' = SubscribeAll(leanClients, name, method, GetClients)
            /\ last' = Last("subscribe", FALSE)
       ELSE \* throw new Error(... not implemented)
            /\ last' = Last("subscribe", TRUE)
            /\ UNCHANGED <<tbl, refs, leanClients>>

\* unsubscribeServerNotifications / unsubscribeClientNotifications
\* (lines 407-419, 446-458)
Unsubscribe(name, tbl, method) ==
    /\ webviewPanel
    /\ IF method \notin DOMAIN tbl
       THEN \* throw new Error(... no active subscriptions)
            /\ last' = Last("unsubscribe", TRUE)
            /\ UNCHANGED <<tbl, refs, leanClients>>
       ELSE /\ tbl' = Unsubscribed(tbl, method)
            /\ refs' = [refs EXCEPT ![<<name, method>>] = @ - 1]
            /\ leanClients' = DisposeAll(leanClients, name, method,
                                         UnsubscribeDisposes(tbl, method))
            /\ last' = Last("unsubscribe", FALSE)

SubscribeServerNotifications(method) ==
    /\ Subscribe("server", serverNotifSubscriptions, method)
    /\ UNCHANGED <<provVars, tasks, misses, lost, touched, told, signals, failures, webviewPanel,
                   autoOpened, viewVars, clientNotifSubscriptions, rpcVars>>

UnsubscribeServerNotifications(method) ==
    /\ Unsubscribe("server", serverNotifSubscriptions, method)
    /\ UNCHANGED <<provVars, tasks, misses, lost, touched, told, signals, failures, webviewPanel,
                   autoOpened, viewVars, clientNotifSubscriptions, rpcVars>>

SubscribeClientNotifications(method) ==
    /\ Subscribe("client", clientNotifSubscriptions, method)
    /\ UNCHANGED <<provVars, tasks, misses, lost, touched, told, signals, failures, webviewPanel,
                   autoOpened, viewVars, serverNotifSubscriptions, rpcVars>>

UnsubscribeClientNotifications(method) ==
    /\ Unsubscribe("client", clientNotifSubscriptions, method)
    /\ UNCHANGED <<provVars, tasks, misses, lost, touched, told, signals, failures, webviewPanel,
                   autoOpened, viewVars, serverNotifSubscriptions, rpcVars>>

\* clearNotificationHandlers (lines 635-642), applied to the clients lc
RECURSIVE DisposeEntries(_, _, _, _)
DisposeEntries(lc, name, tbl, methods) ==
    IF methods = {} THEN lc
    ELSE LET m == CHOOSE x \in methods : TRUE
         IN DisposeEntries(DisposeAll(lc, name, m, tbl[m].subs), name, tbl,
                           methods \ {m})

ClearNotificationHandlers(lc) ==
    DisposeEntries(
        DisposeEntries(lc, "client", clientNotifSubscriptions,
                       DOMAIN clientNotifSubscriptions),
        "server", serverNotifSubscriptions, DOMAIN serverNotifSubscriptions)

(***************************************************************************)
(* InfoProvider: the RPC sessions (lines 298-319, 335, 481-500, 644-654).  *)
(* keepAlive holds the sessions whose interval is set, each with the       *)
(* client its callback closes over.                                        *)
(***************************************************************************)
\* A clearRpcSessions that clears whatever the client.
RemainingNone(sessions, client) == EmptyMap

\* A clearRpcSessions that takes null for a client no session belongs to.
RemainingUnlessNull(sessions, client) ==
    [id \in {i \in DOMAIN sessions : sessions[i].client # client}
        |-> sessions[id]]

\* clearRpcSessions(client): the sessions that remain; 0 stands for null.
Remaining(sessions, client) ==
    [id \in {i \in DOMAIN sessions : client # 0 /\ sessions[i].client # client}
        |-> sessions[id]]

\* clearRpcSessions(client): the intervals sess.dispose() leaves running.
StillAlive(sessions, alive, client) ==
    {k \in alive : k.id \in DOMAIN Remaining(sessions, client)
                   \/ k.id \notin DOMAIN sessions}

\* createRpcSession up to await rpcConnect (lines 481-484)
CreateRpcSession(uri) ==
    /\ webviewPanel
    /\ IF FindClient(uri) = 0
       THEN UNCHANGED tasks
       ELSE tasks' = tasks \cup
               {Task("rpc", "connect", uri, <<>>, FindClient(uri), NoVersion)}
    /\ UNCHANGED <<provVars, leanClients, misses, lost, touched, told, signals, failures, refs, infoVars>>

\* rpcConnect resolves with a fresh session id (lines 485-492)
RpcConnected(t) ==
    /\ t \in tasks /\ t.pc = "connect"
    /\ tasks' = tasks \ {t}
    /\ nextSession' = nextSession + 1
    /\ IF ~webviewPanel
       THEN \* session.dispose(); throw Error('infoview disconnect ...')
            /\ last' = Last("createRpcSession", TRUE)
            /\ UNCHANGED <<rpcSessions, keepAlive>>
       ELSE /\ rpcSessions' = MapPut(rpcSessions, nextSession',
                                     [client |-> t.client, uri |-> t.uri])
            /\ keepAlive' = keepAlive
                    \cup {[id |-> nextSession', client |-> t.client]}
            /\ last' = Last("createRpcSession", FALSE)
    /\ UNCHANGED <<provVars, leanClients, misses, lost, touched, told, signals, failures, refs,
                   webviewPanel, autoOpened, viewVars, subVars>>

\* closeRpcSession (lines 494-500)
CloseRpcSession(sessionId) ==
    /\ webviewPanel
    /\ IF sessionId \in DOMAIN rpcSessions
       THEN /\ rpcSessions' = MapRemove(rpcSessions, sessionId)
            /\ keepAlive' = {k \in keepAlive : k.id # sessionId}
       ELSE UNCHANGED <<rpcSessions, keepAlive>>
    /\ last' = Last("closeRpcSession", FALSE)
    /\ UNCHANGED <<provVars, leanClients, tasks, misses, lost, touched, told, signals, failures, refs,
                   webviewPanel, autoOpened, viewVars, subVars, nextSession>>

\* The keep-alive callback: sendNotification throws on a client that is gone,
\* and the callback clears its own interval (lines 304-312).
KeepAliveFails(k) ==
    /\ k \in keepAlive
    /\ leanClients[k.client].disposed
    /\ keepAlive' = keepAlive \ {k}
    /\ UNCHANGED <<provVars, leanClients, tasks, misses, lost, touched, told, signals, failures, refs,
                   webviewPanel, autoOpened, viewVars, subVars, rpcSessions, nextSession,
                   last>>

(***************************************************************************)
(* InfoProvider: the panel (lines 624-633, 656-708).                       *)
(***************************************************************************)
\* An openPreview that does not look for the panel it has.
CreatesPanelAlways(panel) == TRUE

\* Line 659: openPreview creates a panel only when it holds none; the panel
\* it holds is revealed.
CreatesPanel(panel) == ~panel

\* openPreview, from the command lean4.displayGoal (lines 656-687)
OpenPreview ==
    /\ webviewPanel' = TRUE
    /\ panels' = IF CreatesPanel(webviewPanel) THEN panels + 1 ELSE panels
    /\ UNCHANGED <<provVars, leanClients, tasks, misses, lost, touched, told, signals, failures, refs,
                   autoOpened, activeEditor, autoOpens, subVars, rpcVars, last>>

\* webviewPanel.onDidDispose (lines 682-686)
PanelDisposed ==
    /\ panels > 0
    /\ leanClients' = ClearNotificationHandlers(leanClients)
    /\ serverNotifSubscriptions' = EmptyMap
    /\ clientNotifSubscriptions' = EmptyMap
    /\ refs' = [k \in HandlerKeys |-> 0]
    /\ webviewPanel' = FALSE
    /\ panels' = panels - 1
    /\ rpcSessions' = Remaining(rpcSessions, 0)
    /\ keepAlive' = StillAlive(rpcSessions, keepAlive, 0)
    /\ last' = Last("dispose", FALSE)
    /\ UNCHANGED <<provVars, tasks, misses, lost, touched, told, signals, failures, autoOpened,
                   activeEditor, autoOpens, nextSession>>

\* An autoOpen that forgets it has opened the preview before.
AutoOpensAgain(panel, opened, canAutoOpen) == ~panel /\ canAutoOpen

\* Lines 625-627: autoOpen opens the preview
AutoOpens(panel, opened, canAutoOpen) == ~panel /\ ~opened /\ canAutoOpen

\* Lines 625 and 627: getInfoViewAutoOpen() && window.activeTextEditor, and
\* languages.match(this.leanDocs, ...) with leanDocs = {language: 'lean4'}.
CanAutoOpen(configured, editor) ==
    configured /\ editor # "none" /\ editor = "lean4"

\* autoOpen (lines 624-633) with the openPreview it calls, up to the panel's
\* creation; editor is the active editor when it runs.
AutoOpen(configured, editor) ==
    LET opens == AutoOpens(webviewPanel, autoOpened, CanAutoOpen(configured, editor))
    IN /\ autoOpened' = (autoOpened \/ opens)
       /\ webviewPanel' = (webviewPanel \/ opens)
       /\ panels' = IF opens /\ CreatesPanel(webviewPanel) THEN panels + 1 ELSE panels
       /\ autoOpens' = IF opens THEN autoOpens + 1 ELSE autoOpens

\* sendPosition (lines 761-772): nothing without an active editor or with a
\* document that is not yet lean4, else autoOpen.
SendPosition(configured, editor) ==
    IF editor = "none" \/ editor # "lean4"
    THEN UNCHANGED <<webviewPanel, autoOpened, panels, autoOpens>>
    ELSE AutoOpen(configured, editor)

\* window.onDidChangeActiveTextEditor (line 516): the active editor changes
\* and sendPosition runs.
ChangeActiveEditor(editor, configured) ==
    /\ activeEditor' = editor
    /\ SendPosition(configured, editor)
    /\ UNCHANGED <<provVars, leanClients, tasks, misses, lost, touched, told, signals, failures,
                   refs, subVars, rpcVars, last>>

\* window.onDidChangeTextEditorSelection, workspace.onDidChangeTextDocument
\* (lines 517, 523-525): sendPosition.
CursorMoved(configured) ==
    /\ SendPosition(configured, activeEditor)
    /\ UNCHANGED <<provVars, leanClients, tasks, misses, lost, touched, told, signals, failures,
                   refs, activeEditor, subVars, rpcVars, last>>

\* client.didSetLanguage of an announced client (line 593): onLanguageChanged
\* (lines 743-746) calls autoOpen, then sendPosition, which finds the panel
\* open or autoOpened set.
LanguageChanged(c, configured) ==
    /\ c \in ClientIds
    /\ leanClients[c].added > 0
    /\ AutoOpen(configured, activeEditor)
    /\ UNCHANGED <<provVars, leanClients, tasks, misses, lost, touched, told, signals, failures,
                   refs, activeEditor, subVars, rpcVars, last>>

(***************************************************************************)
(* The restarted event of a client (lines 581-592) and onClientRestarted   *)
(* (lines 540-575).  configured: getInfoViewAutoOpen(); initialized:       *)
(* client.initializeResult is set, so that line 549 awaits.                *)
(***************************************************************************)
\* A restart whose new handlers are not pushed on the entries' lists.
ReinstalledButDropped(tbl, c) == tbl

\* Lines 554-568: one more handler on client c for every subscribed method.
Reinstalled(tbl, c) ==
    [m \in DOMAIN tbl |-> [tbl[m] EXCEPT !.subs = Append(@, c)]]

ReinstalledHandlers(lc, c) ==
    [lc EXCEPT ![c].handled = @ + 1,
               ![c].handlers = [k \in HandlerKeys |->
                    IF k[2] \in DOMAIN Table(k[1]) THEN @[k] + 1 ELSE @[k]]]

\* Lines 554-571: the loops, then sendPosition and its autoOpen.
Resubscribe(c, lc0, configured) ==
    /\ serverNotifSubscriptions' = Reinstalled(serverNotifSubscriptions, c)
    /\ clientNotifSubscriptions' = Reinstalled(clientNotifSubscriptions, c)
    /\ leanClients' = ReinstalledHandlers(lc0, c)
    /\ SendPosition(configured, activeEditor)

ClientRestarted(c, initialized, configured) ==
    /\ c \in ClientIds
    /\ leanClients[c].due > 0
    /\ leanClients[c].added > 0
    /\ rpcSessions' = Remaining(rpcSessions, c)
    /\ keepAlive' = StillAlive(rpcSessions, keepAlive, c)
    /\ IF initialized
       THEN \* lines 542-549: autoOpen, then
            \* await this.webviewPanel?.api.serverRestarted(...)
            /\ leanClients' = [leanClients EXCEPT ![c].due = @ - 1]
            /\ AutoOpen(configured, activeEditor)
            /\ tasks' = tasks \cup
                  {Task("restarted", "notify", <<>>, <<>>, c, NoVersion)}
            /\ UNCHANGED subVars
       ELSE \* lines 542-574 without line 549: the autoOpen of line 543 is the
            \* one sendPosition would make
            /\ Resubscribe(c, [leanClients EXCEPT ![c].due = @ - 1], configured)
            /\ UNCHANGED tasks
    /\ UNCHANGED <<provVars, misses, lost, touched, signals, failures, refs, activeEditor,
                   nextSession, last>>

\* onClientRestarted resumes after line 549.
RestartResume(t, configured) ==
    /\ t \in tasks /\ t.pc = "notify"
    /\ tasks' = tasks \ {t}
    /\ Resubscribe(t.client, leanClients, configured)
    /\ UNCHANGED <<provVars, misses, lost, touched, signals, failures, refs, activeEditor,
                   rpcVars, last>>

\* Line 586 and lines 548-550: clearRpcSessions, then serverRestarted to the
\* panel when the client is initialized and there is a panel.
Informed(notified) ==
    <<"sessions">> \o (IF notified THEN <<"serverRestarted">> ELSE <<>>)

\* A handler that sends the position and nothing after it.
ResentPositionOnly(panel, editor) ==
    IF panel /\ editor = "lean4" THEN <<"position">> ELSE <<>>

\* Lines 571-574: what sendPosition, sendConfig, sendDiagnostics and
\* sendProgress send; panel is the panel after sendPosition's autoOpen,
\* editor the language id of the active editor's document.
Resent(panel, editor) ==
    (IF panel /\ editor = "lean4" THEN <<"position">> ELSE <<>>)
        \o (IF panel THEN <<"config", "diagnostics", "progress">> ELSE <<>>)

\* The history of a handler of client c that completes in this step, having
\* told the panel of the restart or not.
Logged(c, notified) ==
    told' = [client |-> c,
             log |-> Informed(notified) \o <<"subscriptions">>
                        \o Resent(webviewPanel', activeEditor),
             notified |-> told.notified \ {c},
             live |-> told.live \ {c}]

\* The restarted event and the handler's resumption, with the history of the
\* handler: which suspended handlers told a panel at line 549, and what the
\* handler that completes has done.
ClientRestartedLogged(c, initialized, configured) ==
    /\ ClientRestarted(c, initialized, configured)
    /\ IF initialized
       THEN told' = [told EXCEPT
                        !.notified = IF webviewPanel' THEN @ \cup {c} ELSE @ \ {c},
                        !.live = IF webviewPanel THEN @ \cup {c} ELSE @ \ {c}]
       ELSE Logged(c, FALSE)

RestartResumeLogged(t, configured) ==
    /\ RestartResume(t, configured)
    /\ Logged(t.client, t.client \in told.notified)

\* restartActiveClient, the command lean4.restartServer (lines 113-115)
RestartActiveClient ==
    /\ IF activeClient # 0
       THEN leanClients' = [leanClients EXCEPT ![activeClient].restarts = @ + 1,
                                               ![activeClient].due = @ + 1]
       ELSE UNCHANGED leanClients
    /\ UNCHANGED <<provVars, tasks, misses, lost, touched, told, signals, failures, refs, infoVars>>

(***************************************************************************)
(* The state after construction, and the registry's behaviours: document   *)
(* events, probes, failures, folder removals and toolchain-change signals. *)
(***************************************************************************)
Init ==
    /\ clients = <<>>
    /\ versions = EmptyMap
    /\ pending = {}
    /\ testing = {}
    /\ activeClient = 0
    /\ leanClients = <<>>
    /\ tasks = {}
    /\ misses = {}
    /\ lost = [p \in AllPaths |-> "no"]
    /\ touched = NoFolder
    /\ told = [client |-> 0, log |-> <<>>, notified |-> {}, live |-> {}]
    /\ signals = 0
    /\ failures = 0
    /\ webviewPanel = FALSE
    /\ autoOpened = FALSE
    /\ activeEditor = "none"
    /\ panels = 0
    /\ autoOpens = 0
    /\ serverNotifSubscriptions = EmptyMap
    /\ clientNotifSubscriptions = EmptyMap
    /\ refs = [k \in HandlerKeys |-> 0]
    /\ rpcSessions = EmptyMap
    /\ keepAlive = {}
    /\ nextSession = 0
    /\ last = Last("none", FALSE)

CanAllocate == Len(leanClients) < MaxClients
CanSpawn == Cardinality(tasks) < MaxTasks

\* The registry with the documents of one project root.
Next ==
    \/ \E l \in LanguageIds, v \in BOOLEAN :
          CanAllocate /\ CanSpawn /\ DidOpenEditor(DocA, l, v)
    \/ \E t \in tasks : LanguageSet(t)
    \/ \E t \in tasks, vi \in VersionInfos : ProbeReturn(t, vi)
    \/ \E t \in tasks : VersionReturn(t)
    \/ \E t \in tasks : ProbeThrow(t)
    \/ \E t \in tasks : StartReturn(t)
    \/ \E c \in ClientIds : failures < MaxFailures /\ ServerFailed(c)
    \/ RemoveFolder(RootA)
    \/ signals < MaxSignals /\ CanSpawn /\ InstallChanged(DocA)
    \/ \E t \in tasks, vi \in VersionInfos : CanAllocate /\ TestReturn(t, vi)
    \/ \E t \in tasks : RestartReturn(t)

Spec == Init /\ [][Next]_vars

\* The registry with nested project roots, all of them Lean 4 projects; the
\* inner root is the one that is removed and whose toolchain changes.
NextNested ==
    \/ \E d \in Docs : CanAllocate /\ CanSpawn /\ DidOpenEditor(d, "lean4", TRUE)
    \/ \E t \in tasks : ProbeReturn(t, V4)
    \/ \E t \in tasks : VersionReturn(t)
    \/ \E t \in tasks : StartReturn(t)
    \/ \E c \in ClientIds : failures < MaxFailures /\ ServerFailed(c)
    \/ RemoveFolder(RootAB)
    \/ signals < MaxSignals /\ CanSpawn /\ InstallChanged(DocAB)
    \/ \E t \in tasks : CanAllocate /\ TestReturn(t, V4)
    \/ \E t \in tasks : RestartReturn(t)

SpecNested == Init /\ [][NextNested]_vars

\* A signal is taken whenever its location is being handled (it is then
\* dropped), and else while the bounds allow another handler.
CanSignal(uri) == uri \in testing \/ (signals < MaxChanges /\ CanSpawn)

\* The toolchain-change signals of one project, from two trigger locations,
\* beside the document events and the removal of the project's folder.
NextInstall ==
    \/ CanAllocate /\ CanSpawn /\ DidOpenEditor(DocA, "lean4", TRUE)
    \/ \E t \in tasks, vi \in {V4, V3} : ProbeReturn(t, vi)
    \/ \E t \in tasks : VersionReturn(t)
    \/ \E t \in tasks : StartReturn(t)
    \/ \E t \in tasks : StartThrow(t)
    \/ RemoveFolder(RootA)
    \/ \E u \in Triggers : CanSignal(u) /\ InstallChanged(u)
    \/ \E t \in tasks, vi \in VersionInfos : CanAllocate /\ TestReturn(t, vi)
    \/ \E t \in tasks : TestThrow(t)
    \/ \E t \in tasks : RestartReturn(t)

SpecInstall == Init /\ [][NextInstall]_vars

(***************************************************************************)
(* The infoview beside the registry of one Lean 4 project.  In the         *)
(* behaviours below auto-open is not configured, so that the panel opens   *)
(* by command only.                                                        *)
(***************************************************************************)
Subscribed ==
    Cardinality(DOMAIN serverNotifSubscriptions)
        + Cardinality(DOMAIN clientNotifSubscriptions)

CanSubscribe(name, m) ==
    IF m \in DOMAIN Table(name) THEN Table(name)[m].count < MaxRefs
    ELSE Supported(name, m) => Subscribed < MaxEntries

CanConnect ==
    nextSession + Cardinality({t \in tasks : t.pc = "connect"}) < MaxSessions

CanRestart ==
    activeClient # 0 => leanClients[activeClient].restarts < MaxRestarts

\* No connection is registered or being created for the project.
Unconnected == ~MapHas(clients, RootA) /\ RootA \notin pending

\* The panel's notification subscriptions and the restarted events; a
\* document is opened only while its project has no connection.
NextInfo ==
    \/ CanAllocate /\ CanSpawn /\ Unconnected
          /\ DidOpenEditor(DocA, "lean4", TRUE)
    \/ \E t \in tasks : ProbeReturn(t, V4)
    \/ \E t \in tasks : StartReturn(t)
    \/ RemoveFolder(RootA)
    \/ OpenPreview
    \/ PanelDisposed
    \/ \E m \in ServerMethods :
          CanSubscribe("server", m) /\ SubscribeServerNotifications(m)
    \/ \E m \in ServerMethods : UnsubscribeServerNotifications(m)
    \/ \E m \in ClientMethods :
          CanSubscribe("client", m) /\ SubscribeClientNotifications(m)
    \/ \E m \in ClientMethods : UnsubscribeClientNotifications(m)
    \/ \E c \in ClientIds, i \in BOOLEAN :
          CanSpawn /\ ClientRestarted(c, i, FALSE) /\ UNCHANGED told
    \/ \E t \in tasks : RestartResume(t, FALSE) /\ UNCHANGED told
    \/ CanRestart /\ RestartActiveClient

SpecInfo == Init /\ [][NextInfo]_vars

\* The language ids of the documents the active editor shows.
Editors == {"none", "lean4", "markdown"}

\* The panel, opened by command and by autoOpen, with auto-open configured
\* or not at each event.
NextPanel ==
    \/ CanAllocate /\ CanSpawn /\ Unconnected
          /\ DidOpenEditor(DocA, "lean4", TRUE)
    \/ \E t \in tasks : ProbeReturn(t, V4)
    \/ \E t \in tasks : StartReturn(t)
    \/ OpenPreview
    \/ PanelDisposed
    \/ \E e \in Editors, g \in BOOLEAN : ChangeActiveEditor(e, g)
    \/ \E g \in BOOLEAN : CursorMoved(g)
    \/ \E c \in ClientIds, g \in BOOLEAN : LanguageChanged(c, g)
    \/ \E c \in ClientIds, i, g \in BOOLEAN :
          CanSpawn /\ ClientRestarted(c, i, g) /\ UNCHANGED told
    \/ \E t \in tasks, g \in BOOLEAN : RestartResume(t, g) /\ UNCHANGED told
    \/ CanRestart /\ RestartActiveClient

SpecPanel == Init /\ [][NextPanel]_vars

\* The restarted events of one client with the history of their handlers,
\* beside a panel that opens and closes and an active editor that changes.
NextRestart ==
    \/ CanAllocate /\ CanSpawn /\ Unconnected
          /\ DidOpenEditor(DocA, "lean4", TRUE)
    \/ \E t \in tasks : ProbeReturn(t, V4)
    \/ \E t \in tasks : StartReturn(t)
    \/ OpenPreview
    \/ PanelDisposed
    \/ \E e \in Editors, g \in BOOLEAN : ChangeActiveEditor(e, g)
    \/ CanConnect /\ CanSpawn /\ CreateRpcSession(DocA)
    \/ \E t \in tasks : RpcConnected(t)
    \/ CanSubscribe("server", PublishDiagnostics)
          /\ SubscribeServerNotifications(PublishDiagnostics)
    \/ \E c \in ClientIds, i, g \in BOOLEAN :
          CanSpawn /\ ClientRestartedLogged(c, i, g)
    \/ \E t \in tasks, g \in BOOLEAN : RestartResumeLogged(t, g)
    \/ CanRestart /\ RestartActiveClient

SpecRestart == Init /\ [][NextRestart]_vars

\* The panel's RPC sessions, with clients that fail and folders that go.
NextRpc ==
    \/ CanAllocate /\ CanSpawn /\ DidOpenEditor(DocA, "lean4", TRUE)
    \/ \E t \in tasks : ProbeReturn(t, V4)
    \/ \E t \in tasks : VersionReturn(t)
    \/ \E t \in tasks : StartReturn(t)
    \/ \E c \in ClientIds : failures < MaxFailures /\ ServerFailed(c)
    \/ RemoveFolder(RootA)
    \/ OpenPreview
    \/ PanelDisposed
    \/ CanConnect /\ CanSpawn /\ CreateRpcSession(DocA)
    \/ \E t \in tasks : RpcConnected(t)
    \/ \E id \in 1..MaxSessions : CloseRpcSession(id)
    \/ \E k \in keepAlive : KeepAliveFails(k)
    \/ \E c \in ClientIds, i \in BOOLEAN :
          CanSpawn /\ ClientRestarted(c, i, FALSE) /\ UNCHANGED told
    \/ \E t \in tasks : RestartResume(t, FALSE) /\ UNCHANGED told

SpecRpc == Init /\ [][NextRpc]_vars

\* No connection is registered or being created for the root of d.
Idle(d) == ~MapHas(clients, FolderPath(d)) /\ FolderPath(d) \notin pending

\* The panel's RPC sessions with the connections of two projects, both alive.
NextSessions ==
    \/ \E d \in Docs :
          CanAllocate /\ CanSpawn /\ Idle(d) /\ DidOpenEditor(d, "lean4", TRUE)
    \/ \E t \in tasks : ProbeReturn(t, V4)
    \/ \E t \in tasks : StartReturn(t)
    \/ OpenPreview
    \/ PanelDisposed
    \/ \E d \in Docs : CanConnect /\ CanSpawn /\ CreateRpcSession(d)
    \/ \E t \in tasks : RpcConnected(t)
    \/ \E id \in 1..MaxSessions : CloseRpcSession(id)
    \/ \E c \in ClientIds, i \in BOOLEAN :
          CanSpawn /\ ClientRestarted(c, i, FALSE) /\ UNCHANGED told
    \/ \E t \in tasks : RestartResume(t, FALSE) /\ UNCHANGED told

SpecSessions == Init /\ [][NextSessions]_vars

\* Two Lean 4 projects whose probes, starts and toolchain tests may throw.
NextFaults ==
    \/ \E d \in Docs : CanAllocate /\ CanSpawn /\ DidOpenEditor(d, "lean4", TRUE)
    \/ \E t \in tasks : ProbeReturn(t, V4)
    \/ \E t \in tasks : ProbeThrow(t)
    \/ \E t \in tasks : StartReturn(t)
    \/ \E t \in tasks : StartThrow(t)
    \/ \E d \in Docs : CanSignal(d) /\ InstallChanged(d)
    \/ \E t \in tasks : CanAllocate /\ TestReturn(t, V4)
    \/ \E t \in tasks : TestThrow(t)
    \/ \E t \in tasks : RestartReturn(t)

SpecFaults == Init /\ [][NextFaults]_vars

\* The document events of two projects, for every language id and for
\* documents that a visible editor shows or not.
NextDocs ==
    \/ \E d \in Docs, l \in LanguageIds, v \in BOOLEAN :
          CanAllocate /\ CanSpawn /\ DidOpenEditor(d, l, v)
    \/ \E t \in tasks : LanguageSet(t)
    \/ \E t \in tasks, vi \in {V4, V3} : ProbeReturn(t, vi)
    \/ \E t \in tasks : VersionReturn(t)
    \/ \E t \in tasks : StartReturn(t)

SpecDocs == Init /\ [][NextDocs]_vars

(***************************************************************************)
(* Properties of the registry.                                             *)
(***************************************************************************)
ClientsOf(p) == {c \in ClientIds : leanClients[c].folder = p}

\* c left the registry: as a foreign project, with its folder, or by a failure.
Deregistered(c) ==
    \/ leanClients[c].outcome = "undefined"
    \/ leanClients[c].removed > 0
    \/ leanClients[c].dropped

OnlyOpenEvents ==
    signals = 0 /\ failures = 0 /\ \A c \in ClientIds : leanClients[c].removed = 0

C1_Counted ==
    \A p \in AllPaths :
        /\ Cardinality(ClientsOf(p))
              <= 1 + Cardinality({c \in ClientsOf(p) : Deregistered(c)})
        /\ (\A c \in ClientsOf(p) : ~Deregistered(c)) => p \notin misses

C1_Resolved ==
    \A c \in ClientIds :
        (leanClients'[c].hit /\ ~leanClients[c].hit)
            => /\ MapGet(clients, leanClients[c].folder) = c
               /\ \A d \in ClientsOf(leanClients[c].folder) : d <= c

\* C1 (as amended): for each root, a connection is created only when none is
\* registered for it, so the connections created for the root are at most one
\* more than those that left the registry (foreign project, folder removal,
\* fatal failure); while none has left, no caller is turned away; and every
\* call that resolves to an existing connection resolves to the one registered
\* for the root at that moment, which is the last one created for it.
C1_CreatedOnlyWhenNoneRegistered == []C1_Counted /\ [][C1_Resolved]_vars

\* C1 witness: a call that arrived while the creation was in flight resolved
\* to the root's only connection, which the creating call returned as well.
C1_Witness ==
    \E c \in ClientIds :
        /\ leanClients[c].hit /\ leanClients[c].early
        /\ leanClients[c].outcome = "client"
        /\ ClientsOf(leanClients[c].folder) = {c}
        /\ ~Deregistered(c)

\* C1 (as stated): with document-opened events alone, at most one connection
\* is ever created for a root and no event resolves to anything else.
C1_AtMostOneEverCreated ==
    OnlyOpenEvents =>
        \A p \in AllPaths : Cardinality(ClientsOf(p)) <= 1 /\ p \notin misses

\* C2 (as stated): a call that arrives while the creation for its root is in
\* flight creates no second connection and resolves to the outcome of the
\* creating call: the connection it returned, or none for a foreign project.
C2_SameOutcomeAsCreator ==
    \A c \in ClientIds :
        (leanClients[c].early /\ leanClients[c].outcome # "none")
            => leanClients[c].outcome = "client"

C3_Foreign ==
    \A c \in ClientIds :
        IsForeign(leanClients[c].settled)
            => /\ leanClients[c].outcome = "undefined"
               /\ leanClients[c].disposed
               /\ leanClients[c].added = 0 /\ ~leanClients[c].wired
               /\ leanClients[c].started = 0
               /\ MapGet(clients, leanClients[c].folder) # c

C3_Completes ==
    \A c \in ClientIds :
        (leanClients[c].settled = NoVersion /\ IsForeign(leanClients'[c].settled))
            => /\ ~MapHas(clients', leanClients[c].folder)
               /\ leanClients[c].folder \notin pending'

\* C3: when the version of a root resolves to a major version other than 4,
\* ensureClient returns [false, undefined], the connection it registered is
\* disposed and out of the registry, it was never announced nor started, and
\* when the call completes the root has no registered connection and no
\* pending guard.
C3_ForeignProjectLeavesNothing == []C3_Foreign /\ [][C3_Completes]_vars

\* C3 witness: a creation went on with version 3 and returned no client.
C3_Witness ==
    \E c \in ClientIds :
        leanClients[c].settled = V3 /\ leanClients[c].outcome = "undefined"

C4_Started ==
    \A c \in ClientIds :
        /\ leanClients[c].started > 0 => leanClients[c].settled = V4
        /\ leanClients[c].settled.error
              => /\ leanClients[c].started = 0
                 /\ leanClients[c].added = 1
                 /\ leanClients[c].restarts > 0 => signals > 0

C4_Announced ==
    \A c \in ClientIds :
        (leanClients[c].settled = NoVersion /\ leanClients'[c].settled.error)
            => /\ clients' = clients
               /\ leanClients'[c].added = 1 /\ leanClients'[c].wired
               /\ leanClients'[c].outcome = "client"
               /\ leanClients'[c].started = 0

DocsUnder(p) == {d \in Docs : FolderPath(d) = p}

C5_Unroutable ==
    \A p \in AllPaths :
        lost[p] = "lost"
            => /\ ~MapHas(clients, p) /\ p \notin pending
               /\ \A d \in DocsUnder(p) :
                     FindClient(d) = 0 \/ leanClients[FindClient(d)].folder # p

C5_Recreated ==
    \A p \in AllPaths :
        (lost[p] = "lost" /\ lost'[p] # "lost")
            => /\ Len(leanClients') = Len(leanClients) + 1
               /\ leanClients'[Len(leanClients')].folder = p
               /\ MapGet(clients', p) = Len(leanClients')

\* C5 (as amended): after the connection registered for a root fires its
\* fatal failure, the registry holds no connection for the root and findClient
\* returns no connection of that root for the documents under it, in every
\* state until ensureClient is next called for the root, by a document-opened
\* event or by a toolchain-change signal whose probe reports version 4; that
\* call creates and registers a new connection for the root.
C5_UnroutableUntilNextEnsure == []C5_Unroutable /\ [][C5_Recreated]_vars

\* C5 witness: the registered connection failed, and a later document-opened
\* event found the root with a new connection registered.
C5_Witness ==
    \E c, d \in ClientIds :
        /\ leanClients[c].dropped /\ leanClients[c].failed /\ c < d
        /\ MapGet(clients, leanClients[c].folder) = d
        /\ lost[leanClients[c].folder] = "no"

\* C5 (as stated): after the fatal failure of the connection registered for a
\* root, findClient returns no connection for the documents under the root
\* until a document-opened event for the root occurs.
C5_UnroutableUntilOpen ==
    \A p \in AllPaths :
        lost[p] # "no" => \A d \in DocsUnder(p) : FindClient(d) = 0

RegisteredPrefixes(path) ==
    {i \in 1..Len(clients) :
        StartsWith(path, GetWorkspaceFolder(clients[i].value))}

\* C6 (as stated): findClient returns the registered connection whose root is
\* the longest prefix of the document's location, whatever the order of
\* registration, and none when no registered root is a prefix.
C6_LongestPrefix ==
    \A d \in Docs :
        IF RegisteredPrefixes(d) = {} THEN FindClient(d) = 0
        ELSE \E i \in RegisteredPrefixes(d) :
                /\ FindClient(d) = clients[i].value
                /\ \A j \in RegisteredPrefixes(d) :
                      Len(GetWorkspaceFolder(clients[j].value))
                          <= Len(GetWorkspaceFolder(clients[i].value))

(***************************************************************************)
(* Properties of the infoview.                                             *)
(***************************************************************************)
UnsubscribeStep(name, m) ==
    IF name = "server" THEN UnsubscribeServerNotifications(m)
    ELSE UnsubscribeClientNotifications(m)

C7_Unsubscribe ==
    \A k \in HandlerKeys :
        LET name == k[1]
            m == k[2]
            tbl == Table(name)
        IN UnsubscribeStep(name, m) =>
              IF m \notin DOMAIN tbl
              THEN /\ last' = Last("unsubscribe", TRUE)
                   /\ UNCHANGED <<subVars, refs, leanClients>>
              ELSE /\ tbl[m].count >= 1
                   /\ last' = Last("unsubscribe", FALSE)
                   /\ IF tbl[m].count >= 2
                      THEN /\ m \in DOMAIN Table(name)'
                           /\ Table(name)'[m].count = tbl[m].count - 1
                           /\ Table(name)'[m].subs = tbl[m].subs
                           /\ leanClients' = leanClients
                      ELSE /\ m \notin DOMAIN Table(name)'
                           /\ \A c \in ClientIds :
                                 leanClients'[c].handlers[k] = 0

\* C7: in either table, unsubscribing a method whose count is n >= 1 leaves
\* the count at n - 1; with n >= 2 the entry keeps its handlers and none is
\* disposed; with n = 1 the entry is deleted and no client keeps a handler of
\* the method; unsubscribing a method that has no entry throws and changes
\* nothing.
C7_UnsubscribeCountsDown == [][C7_Unsubscribe]_vars

\* C7 witness: the last call was an unsubscribe that returned, it left the
\* tables empty, and a client whose handlers were re-installed by a restarted
\* event has none left.
C7_Witness ==
    /\ last = Last("unsubscribe", FALSE)
    /\ webviewPanel /\ Subscribed = 0
    /\ \E c \in ClientIds :
          /\ leanClients[c].handled > 0
          /\ \A k \in HandlerKeys : leanClients[c].handlers[k] = 0

\* C8: in every reachable state, each table has an entry for a method exactly
\* when the subscribes minus the unsubscribes that returned since the entry
\* was created are more than 0, the entry's count is that number, and the
\* handlers each client holds for the method are those on the entry's list:
\* none once the entry is deleted.
C8_EntryIffReferenced ==
    \A k \in HandlerKeys :
        LET tbl == Table(k[1])
            m == k[2]
        IN /\ m \in DOMAIN tbl <=> refs[k] > 0
           /\ m \in DOMAIN tbl => tbl[m].count = refs[k]
           /\ \A c \in ClientIds :
                 leanClients[c].handlers[k] =
                    IF m \in DOMAIN tbl THEN Occurrences(tbl[m].subs, c) ELSE 0

\* C8 witness: a method subscribed twice, with handlers installed on a client
\* both by the subscription and by a restarted event after a restart.
C8_Witness ==
    \E k \in HandlerKeys, c \in ClientIds :
        /\ refs[k] = 2
        /\ leanClients[c].handlers[k] >= 2
        /\ leanClients[c].restarts > 0 /\ leanClients[c].handled > 0

\* C9 (as stated): once a restarted event of a registered client has been
\* handled, every method that has an entry in either table has exactly one
\* live handler on that client.
C9_ExactlyOneHandler ==
    \A c \in ClientIds :
        (leanClients[c].handled > 0 /\ MapGet(clients, leanClients[c].folder) = c)
            => \A k \in HandlerKeys :
                  k[2] \in DOMAIN Table(k[1]) => leanClients[c].handlers[k] = 1

C10_Disposal ==
    \A c \in ClientIds :
        (~leanClients[c].disposed /\ leanClients'[c].disposed)
            => /\ \A id \in DOMAIN rpcSessions :
                     IF rpcSessions[id].client = c
                     THEN id \notin DOMAIN rpcSessions'
                     ELSE id \in DOMAIN rpcSessions'
               /\ \A h \in keepAlive :
                     IF h.client = c THEN h \notin keepAlive'
                     ELSE h \in keepAlive'

\* C10 (as stated): the step that disposes a client, a folder removal or its
\* fatal failure, removes every session of that client from the session table
\* and stops its heartbeat, and leaves the sessions and heartbeats of the other
\* clients as they are.
C10_SessionsEndWithClient == [][C10_Disposal]_vars

SubscribeStep(name, m) ==
    IF name = "server" THEN SubscribeServerNotifications(m)
    ELSE SubscribeClientNotifications(m)

C11_Allowed(name, m) ==
    \/ name = "server" /\ (m = PublishDiagnostics \/ m[1] = "$")
    \/ name = "client" /\ (m = DidChange \/ m = DidClose)

C11_Rejects ==
    \A k \in HandlerKeys :
        /\ (SubscribeStep(k[1], k[2]) /\ ~C11_Allowed(k[1], k[2]))
              => /\ last' = Last("subscribe", TRUE)
                 /\ UNCHANGED <<subVars, refs, leanClients>>
        /\ (UnsubscribeStep(k[1], k[2]) /\ k[2] \notin DOMAIN Table(k[1]))
              => /\ last' = Last("unsubscribe", TRUE)
                 /\ UNCHANGED <<subVars, refs, leanClients>>

\* C11: a subscribe for a method outside the allow-list of its table (server:
\* publishDiagnostics or a method that starts with '$'; client: didChange or
\* didClose) and an unsubscribe for a method without an entry throw, and leave
\* the entries, the counts and the handlers of both tables as they were.
C11_RejectedRequestsChangeNothing == [][C11_Rejects]_vars

\* C11 witness: the last request was a subscribe that threw while the tables
\* held an entry with a handler on a client.
C11_Witness ==
    /\ last = Last("subscribe", TRUE)
    /\ Subscribed = 1
    /\ \E c \in ClientIds, k \in HandlerKeys : leanClients[c].handlers[k] > 0

(***************************************************************************)
(* Properties of the registry: the fast path and the toolchain changes.    *)
(***************************************************************************)
C12_Frame ==
    /\ UNCHANGED <<clients, versions, pending>>
    /\ Len(leanClients') = Len(leanClients)
    /\ \A u \in tasks' \ tasks : u.pc \notin {"probe", "version", "start"}

C12_FastPath ==
    /\ \A d \in Docs :
          (MapHas(clients, FolderPath(d)) /\ DidOpenEditor(d, "lean4", TRUE))
             => /\ C12_Frame
                /\ tasks' = tasks
                /\ activeClient' = MapGet(clients, FolderPath(d))
                /\ leanClients'[MapGet(clients, FolderPath(d))].hit
    /\ \A t \in tasks, vi \in {V4, V4Err} :
          (t.pc = "test" /\ MapHas(clients, t.path) /\ TestReturn(t, vi))
             => /\ C12_Frame
                /\ activeClient' = MapGet(clients, t.path)
                /\ leanClients'[MapGet(clients, t.path)].hit
                /\ \E u \in tasks' :
                      u.pc = "restart" /\ u.client = MapGet(clients, t.path)

\* C12: when a connection is registered for the root of the document,
\* ensureClient returns it with wasCached = true in the step of the call: it
\* suspends at no await of its own, starts no version probe, creates no
\* connection and leaves the registry, the version cache and the pending
\* guard as they were.
C12_CachedReturnsAtOnce == [][C12_FastPath]_vars

\* C12 witness: a connection that its creating call returned and that is
\* still registered was returned again by a later call, with no creation in
\* flight for its root.
C12_Witness ==
    \E c \in ClientIds :
        /\ leanClients[c].hit /\ ~leanClients[c].early
        /\ leanClients[c].outcome = "client"
        /\ MapGet(clients, leanClients[c].folder) = c
        /\ leanClients[c].folder \notin pending

\* The handlers of toolchain-change signals in flight for the location u.
Handling(u) == {t \in tasks : t.kind = "install" /\ t.uri = u}

C13_Guarded ==
    \A u \in Triggers :
        /\ u \in testing <=> Handling(u) # {}
        /\ Cardinality(Handling(u)) <= 1

C13_Signal ==
    \A u \in Triggers :
        InstallChanged(u) =>
            IF u \in testing
            THEN UNCHANGED vars
            ELSE /\ signals' = signals + 1
                 /\ \E t \in tasks' \ tasks : t.pc = "test" /\ t.uri = u

\* C13: while a toolchain-change signal for a location is being handled, a
\* further signal for the same location changes nothing: no probe, no call of
\* ensureClient, no restart, and nothing is kept for later; the guard of a
\* location is held exactly while one handler for it is in flight, whether the
\* handler ends by returning or by an exception, and a signal that finds the
\* guard free starts a probe.
C13_SignalDroppedWhileHandled == []C13_Guarded /\ [][C13_Signal]_vars

\* C13 witness: two signals were accepted, one handler is at its probe and
\* holds the guard of its location, and the other location's guard is free.
C13_Witness ==
    /\ signals = 2
    /\ \E u \in Triggers :
          /\ testing = {u}
          /\ \E t \in Handling(u) : t.pc = "test"
    /\ \E c \in ClientIds : leanClients[c].restarts = 1

C14_Restart ==
    \A t \in tasks, vi \in {V4, V4Err} :
        (t.pc = "test" /\ TestReturn(t, vi)) =>
            IF MapHas(clients, t.path)
            THEN /\ clients' = clients
                 /\ Len(leanClients') = Len(leanClients)
                 /\ \A c \in ClientIds :
                       leanClients'[c].restarts = leanClients[c].restarts
                           + (IF c = MapGet(clients, t.path) THEN 1 ELSE 0)
            ELSE /\ Len(leanClients') = Len(leanClients) + 1
                 /\ MapGet(clients', t.path) = Len(leanClients')
                 /\ \A c \in ClientIds :
                       leanClients'[c].restarts = leanClients[c].restarts

\* C14 (as stated): when the probe of a toolchain-change signal returns
\* version 4 and a connection is registered for the root, that connection is
\* restarted once, stays registered, and no connection is created; when none
\* is registered, ensureClient creates and registers one and restart is not
\* called.
C14_RestartedNotRecreated == [][C14_Restart]_vars

C19_Recomputed ==
    \A t \in tasks, vi \in VersionInfos :
        (t.pc = "test" /\ t.path \in DOMAIN versions /\ TestReturn(t, vi))
            => /\ t.path \in DOMAIN versions'
               /\ versions'[t.path] = vi

\* C19 (as stated): once the probe of a toolchain-change signal for a root
\* has returned, the version cache entry of the root holds that probe's
\* result, so that a later ensureClient without a supplied version decides
\* from the new version.
C19_CacheHoldsNewVersion == [][C19_Recomputed]_vars

\* C20 (as stated): no two toolchain-change signals that concern the same
\* project root are handled at the same time, whatever their trigger
\* locations inside the root.
C20_OneHandlerPerRoot ==
    \A p \in AllPaths :
        Cardinality({t \in tasks : t.kind = "install" /\ t.path = p}) <= 1

(***************************************************************************)
(* Properties of the panel and of the RPC sessions.                        *)
(***************************************************************************)
\* C15: in every reachable state at most one panel is live, and it is the one
\* the provider holds: openPreview with a panel held reveals it and creates
\* none, under any interleaving of open commands, auto-opens and disposals.
C15_AtMostOnePanel ==
    /\ panels <= 1
    /\ webviewPanel <=> panels = 1

\* C15 witness: the panel is live after an auto-open, and a restarted event
\* has been handled since the client was announced.
C15_Witness ==
    /\ webviewPanel /\ panels = 1
    /\ autoOpens = 1
    /\ \E c \in ClientIds : leanClients[c].handled > 0

C16_Once ==
    /\ autoOpens <= 1
    /\ autoOpened <=> autoOpens = 1

C16_Opens ==
    autoOpens' # autoOpens
        => /\ ~webviewPanel /\ ~autoOpened
           /\ activeEditor' = "lean4"
           /\ webviewPanel' /\ autoOpened'
           /\ panels' = panels + 1

\* C16: over any sequence of restarted, language-changed and cursor events,
\* autoOpen opens the panel at most once, and only when no panel is live, it
\* has not opened one before and the active editor shows a lean4 document;
\* once it has opened one, it opens none again, also after the panel was
\* closed.
C16_AutoOpenedAtMostOnce == []C16_Once /\ [][C16_Opens]_vars

\* C16 witness: the auto-opened panel has been closed, the active editor shows
\* a lean4 document and a restarted event is due.
C16_Witness ==
    /\ autoOpens = 1 /\ ~webviewPanel
    /\ activeEditor = "lean4"
    /\ \E c \in ClientIds : leanClients[c].due > 0 /\ leanClients[c].added > 0

SessionsOf(c) == {id \in DOMAIN rpcSessions : rpcSessions[id].client = c}

C17_Clears ==
    /\ \A c \in ClientIds :
          leanClients'[c].due < leanClients[c].due
             => /\ DOMAIN rpcSessions' = DOMAIN rpcSessions \ SessionsOf(c)
                /\ \A id \in DOMAIN rpcSessions' :
                      rpcSessions'[id] = rpcSessions[id]
                /\ \A k \in keepAlive :
                      k \in keepAlive' <=> k.id \notin SessionsOf(c)
                /\ keepAlive' \subseteq keepAlive
    /\ panels' < panels => rpcSessions' = EmptyMap /\ keepAlive' = {}

\* C17: the restarted event of a client removes from the session table
\* exactly the sessions of that client and stops their heartbeats; every
\* session of another client stays in the table as it was, its heartbeat
\* running if it was; the disposal of the panel, which clears with no client,
\* removes every session and stops every heartbeat.
C17_ClearsOnlyOwnSessions == [][C17_Clears]_vars

\* C17 witness: two sessions were created and none closed since; the second
\* is gone, cleared by the restarted event of its client, and the first, of
\* another client that is still registered, is in the table with its
\* heartbeat running.
C17_Witness ==
    /\ last = Last("createRpcSession", FALSE)
    /\ nextSession = 2
    /\ DOMAIN rpcSessions = {1}
    /\ [id |-> 1, client |-> rpcSessions[1].client] \in keepAlive
    /\ MapGet(clients, leanClients[rpcSessions[1].client].folder)
          = rpcSessions[1].client

C18_NoPanelNoSession == ~webviewPanel => rpcSessions = EmptyMap /\ keepAlive = {}

C18_LateConnect ==
    (~webviewPanel /\ \E t \in tasks \ tasks' : t.pc = "connect")
        => /\ last' = Last("createRpcSession", TRUE)
           /\ UNCHANGED <<rpcSessions, keepAlive>>

\* C18: in every reachable state without a live panel the session table is
\* empty and no heartbeat is running: the disposal of the panel removes every
\* session, and a createRpcSession whose connect request returns when the
\* panel is gone disposes its new session, throws and adds nothing.
C18_SessionsEndWithPanel == []C18_NoPanelNoSession /\ [][C18_LateConnect]_vars

\* C18 witness: the panel is gone, a session had been created before, and the
\* last createRpcSession threw because its connect returned too late.
C18_Witness ==
    /\ ~webviewPanel /\ panels = 0
    /\ nextSession = 2
    /\ last = Last("createRpcSession", TRUE)

(***************************************************************************)
(* Properties of folder removal, of the active client and of the order in  *)
(* which a creation wires, announces and starts its client.                *)
(***************************************************************************)
\* The entry of root q in the registry and in the version cache.
EntryOf(m, vs, q) ==
    <<MapGet(m, q), IF q \in DOMAIN vs THEN vs[q] ELSE NoVersion>>

C21_Removal ==
    \A p \in AllPaths :
        (MapHas(clients, p) /\ RemoveFolder(p)) =>
            LET c == MapGet(clients, p)
            IN /\ ~MapHas(clients', p)
               /\ p \notin DOMAIN versions'
               /\ leanClients'[c].disposed
               /\ leanClients'[c].removed = leanClients[c].removed + 1
               /\ \A q \in AllPaths \ {p} :
                     EntryOf(clients', versions', q) = EntryOf(clients, versions, q)
               /\ p \notin pending'

\* C21 (as stated): when a workspace folder is removed while a connection is
\* registered for its root, that connection leaves the registry with the
\* root's version-cache entry, is disposed and connection-removed is emitted
\* for it once; the entries of all other roots are unchanged; and the root
\* is then absent, with no pending guard held, so that the next
\* document-opened event for it creates a connection.
C21_RemovedRootIsAbsent == [][C21_Removal]_vars

C22_LastTouched ==
    (activeClient # 0 /\ leanClients[activeClient].folder = touched
        /\ touched' = touched /\ activeClient' # 0)
        => leanClients'[activeClient'].folder = touched

C22_Returns ==
    /\ \A c \in ClientIds :
          (leanClients[c].outcome = "none" /\ leanClients'[c].outcome = "client")
              => activeClient' = c
    /\ \A d \in Docs :
          (MapHas(clients, FolderPath(d)) /\ DidOpenEditor(d, "lean4", TRUE))
              => activeClient' = MapGet(clients, FolderPath(d))

\* C22 (as stated): when a call of ensureClient returns a connection, the
\* active connection is that connection; and the active connection is the
\* connection of the root of the call issued last: once it is, no call
\* issued earlier for another root takes it over by finishing later.
C22_ActiveIsMostRecentlyTouched ==
    [][C22_Returns /\ C22_LastTouched]_vars

(***************************************************************************)
(* Properties of the handlers' exceptions.                                 *)
(***************************************************************************)
\* The calls in flight that create the client of root p.
Creating(p) == {t \in tasks : t.path = p /\ t.pc \in {"probe", "version"}}

\* A probe, a start or a toolchain test throws in this step.
Throws ==
    \E t \in tasks : ProbeThrow(t) \/ StartThrow(t) \/ TestThrow(t)

\* An exception has ended a handler of root p: its creation stopped at the
\* probe, or at the start of its client.
Faulted(p) ==
    \/ p \in pending /\ Creating(p) = {}
    \/ \E c \in ClientsOf(p) :
          /\ leanClients[c].started > 0 /\ leanClients[c].outcome = "none"
          /\ \A t \in tasks : t.client # c

C24_Caught ==
    Throws =>
        /\ Cardinality(tasks') = Cardinality(tasks) - 1
        /\ UNCHANGED <<clients, versions, pending, activeClient, leanClients>>

C24_Creates ==
    \A d \in Docs :
        (Idle(d) /\ DidOpenEditor(d, "lean4", TRUE)) =>
            LET c == Len(leanClients) + 1
            IN /\ Len(leanClients') = c
               /\ MapGet(clients', FolderPath(d)) = c
               /\ \E t \in tasks' : t.client = c /\ t.pc = "probe"

C24_Starts ==
    \A t \in tasks :
        (t.pc = "probe" /\ ProbeReturn(t, V4)) =>
            /\ leanClients'[t.client].started = 1
            /\ leanClients'[t.client].added = 1
            /\ MapGet(clients', t.path) = t.client

C25_Skipped ==
    \A d \in Docs, l \in LanguageIds, v \in BOOLEAN :
        ((l \notin {"lean", "lean4"} \/ ~v \/ l = "lean") /\ DidOpenEditor(d, l, v))
            => /\ UNCHANGED <<clients, versions, pending, activeClient,
                              leanClients, misses, lost, touched>>
               /\ \A t \in tasks' \ tasks :
                     /\ l = "lean" /\ v
                     /\ t.pc = "language" /\ t.uri = d /\ t.client = 0

\* C25: a document event for a document whose language id is neither 'lean'
\* nor 'lean4', or that no visible editor shows, calls ensureClient not at
\* all and creates no connection; for a visible document with the id 'lean'
\* the handler only sets the language to 'lean4' and returns, so that the
\* event this triggers is the one that reaches ensureClient.
C25_OnlyVisibleLean4Reaches == [][C25_Skipped]_vars

\* C25 witness: the language of a visible 'lean' document is being set, and
\* ensureClient has not been called and no connection exists.
C25_Witness ==
    /\ \E t \in tasks : t.pc = "language"
    /\ leanClients = <<>>
    /\ touched = NoFolder

(***************************************************************************)
(* Properties of the announcement and the start of a client.               *)
(***************************************************************************)
\* The creation of client c went on past line 238: its version is known and
\* is not that of another Lean.
Supportable(c) ==
    leanClients[c].settled # NoVersion /\ ~IsForeign(leanClients[c].settled)

C26_Once ==
    \A c \in ClientIds :
        /\ leanClients[c].added <= 1
        /\ Supportable(c) <=> leanClients[c].added = 1
        /\ leanClients[c].added = 1 => leanClients[c].wired
        /\ leanClients[c].started > 0 => leanClients[c].added = 1

C26_Order ==
    \A c \in ClientIds :
        /\ leanClients'[c].added > leanClients[c].added
              => /\ leanClients'[c].wired
                 /\ leanClients[c].folder \notin pending'
                 /\ leanClients[c].started = 0
        /\ leanClients'[c].started > leanClients[c].started
              => leanClients'[c].added = 1

\* C26: for every connection whose creation finds a version that is not
\* foreign, clientAdded is emitted exactly once, with the fatal-failure and
\* progress handlers wired and the pending guard of the root cleared, and
\* start is called on no connection before clientAdded was emitted for it.
C26_AnnouncedOnceBeforeStart == []C26_Once /\ [][C26_Order]_vars

\* C26 witness: two connections of one root, one after the other, each
\* announced once and then started.
C26_Witness ==
    \E c, d \in ClientIds :
        /\ c < d
        /\ leanClients[c].added = 1 /\ leanClients[c].started = 1
        /\ leanClients[d].added = 1 /\ leanClients[d].started = 1

(***************************************************************************)
(* Properties the code is expected to have beyond its specification.       *)
(***************************************************************************)
\* Client c is the registered client of its root.
Registered(m, c) == MapGet(m, leanClients[c].folder) = c

C27_Failure ==
    \A c \in ClientIds :
        (~leanClients[c].failed /\ leanClients'[c].failed) =>
            \A d \in ClientIds \ {c} :
                /\ leanClients'[d].disposed = leanClients[d].disposed
                /\ Registered(clients, d) => Registered(clients', d)

\* C27 (as stated): the fatal-failure handler wired for a connection removes
\* and disposes that connection only; when the connection has left the
\* registry and a newer one is registered for the same root, a late failure
\* of the old one leaves the newer one registered and not disposed.
C27_FailureRemovesOnlyItsOwn == [][C27_Failure]_vars

\* C28 (as stated): in every state the active connection is undefined or a
\* connection that is registered and not disposed.
C28_ActiveIsRegistered ==
    activeClient # 0 =>
        /\ Registered(clients, activeClient)
        /\ ~leanClients[activeClient].disposed

C29_Live ==
    \A c \in ClientIds :
        (\/ leanClients'[c].added > leanClients[c].added
         \/ leanClients'[c].started > leanClients[c].started)
            => /\ ~leanClients[c].disposed
               /\ Registered(clients, c)

\* C29 (as stated): clientAdded is never emitted for, and start never called
\* on, a connection that is disposed or is no longer the registered
\* connection of its root.
C29_NoStartOfRemoved == [][C29_Live]_vars

C30_Guard ==
    \A p \in AllPaths : p \in pending => Creating(p) # {}

C30_Creates ==
    \A d \in Docs :
        (/\ Creating(FolderPath(d)) = {}
         /\ ~MapHas(clients, FolderPath(d))
         /\ DidOpenEditor(d, "lean4", TRUE))
            => /\ Len(leanClients') = Len(leanClients) + 1
               /\ MapGet(clients', FolderPath(d)) = Len(leanClients')

\* C30 (as stated): the pending guard of a root is held only while a call
\* of ensureClient that creates the root's connection is in flight; so for a
\* root with no such call and no registered connection, a document-opened
\* event creates a connection instead of returning none.
C30_PendingOnlyWhileCreating == []C30_Guard /\ [][C30_Creates]_vars

(***************************************************************************)
(* Properties of the handler of the restarted event.                       *)
(***************************************************************************)
WholeLog ==
    <<"sessions", "serverRestarted", "subscriptions", "position", "config",
      "diagnostics", "progress">>

Entries(log) == {log[i] : i \in 1..Len(log)}

\* The handler of a restarted event of client c completes in this step.
Completes(c) == leanClients'[c].handled > leanClients[c].handled

\* The handler that completes in this step had been suspended at line 549.
Resumed == tasks' # tasks

C23_AllSent ==
    \A c \in ClientIds :
        (Completes(c) /\ IF Resumed THEN c \in told.live ELSE webviewPanel)
            => told'.client = c /\ told'.log = WholeLog

C23_Cleared ==
    \A c \in ClientIds :
        leanClients'[c].due < leanClients[c].due
            => \A id \in DOMAIN rpcSessions' : rpcSessions'[id].client # c

C23_InOrder ==
    \A c \in ClientIds :
        Completes(c) =>
            LET log == told'.log
            IN /\ told'.client = c
               /\ log = SelectSeq(WholeLog, LAMBDA x : x \in Entries(log))
               /\ {"sessions", "subscriptions"} \subseteq Entries(log)
               /\ "serverRestarted" \in Entries(log)
                     <=> (Resumed /\ c \in told.notified)
               /\ "position" \in Entries(log)
                     <=> (webviewPanel' /\ activeEditor = "lean4")
               /\ \A x \in {"config", "diagnostics", "progress"} :
                     x \in Entries(log) <=> webviewPanel'
               /\ \A k \in HandlerKeys :
                     leanClients'[c].handlers[k] = leanClients[c].handlers[k]
                        + (IF k[2] \in DOMAIN Table(k[1]) THEN 1 ELSE 0)

C31_InFlight(c) ==
    /\ leanClients[c].folder \in pending
    /\ ~leanClients[c].wired
    /\ leanClients[c].started = 0
    /\ \E t \in tasks : t.client = c /\ t.pc \in {"probe", "version"}

C31_NoRestartInFlight ==
    [][\A c \in ClientIds :
          leanClients'[c].restarts > leanClients[c].restarts
              => ~C31_InFlight(c)]_vars

(***************************************************************************)
(* C32: every client for which clientAdded was emitted and which is no     *)
(* longer in the registry, whether a workspace-folder removal or its       *)
(* serverFailed event took it out, has had clientRemoved emitted for it.   *)
(***************************************************************************)
C32_AddedGoesAway ==
    \A c \in ClientIds :
        (leanClients[c].added > 0 /\ ~Registered(clients, c))
            => leanClients[c].removed > 0

=============================================================================
